---- MODULE Spec2Model ----
(***************************************************************************)
(* The Wan image-to-video HTTP service: the generation engine              *)
(* (wan_video_api/models/wan_model.py), the route layer in its open        *)
(* (wan_video_api/api/routes.py) and bearer-token authenticated            *)
(* (gczm_ti_to_video/api/routes.py) variants, the application lifespan     *)
(* (wan_video_api/main.py) and upload validation                           *)
(* (gczm_ti_to_video/utils/file_utils.py); and, each on its own, the image *)
(* preprocessor, the numeric form fields of a generation request, the      *)
(* launcher (scripts/start_server.py) and list_output_files.               *)
(*                                                                         *)
(* Text is modelled as a sequence of one-character strings, so that        *)
(* lower-casing, suffix extraction, stripping and splitting are computed.  *)
(***************************************************************************)
EXTENDS Integers, Sequences, FiniteSets, TLC

VARIABLES
    settings,       \* the process-wide Settings instance (immutable after load)
    phase,          \* lifespan position: "starting" | "serving" | "stopped"
    pipe,           \* WanVideoModel.pipe: 0 = None, else the tag of the load that built it
    image_processor,\* WanVideoModel.image_processor: 0 = None, else the tag of its load
    loads,          \* what the load_model calls so far did: the startup load
                    \* ("none" | "ok" | "failed"), and whether a reload has returned
    pc,             \* per request slot: "idle" | "reading" (suspended at await image.read())
                    \* | "generating" (inside model.generate_video)
    output_dir,     \* files under settings.output_dir
    last,           \* the most recent handler step: its request, and its response
    v_in,           \* a function checked on its own: its input
    v_out           \* a function checked on its own: its outcome

vars == <<settings, phase, pipe, image_processor, loads, pc, output_dir, last, v_in, v_out>>
svc_vars == <<settings, phase, pipe, image_processor, loads, pc, output_dir, last>>

----------------------------------------------------------------------------
(* Bounds *)

\* image requests that can be suspended at `await image.read()` at once
MaxInFlight == 2
\* files the output directory can hold
MaxFiles == 2

\* the largest width and height of an image handed to the preprocessor
MaxDim == 18

\* the most entries the listed output directory holds
MaxEntries == 3

----------------------------------------------------------------------------
(* Text helpers *)

Upper == <<"A","B","C","D","E","F","G","H","I","J","K","L","M",
           "N","O","P","Q","R","S","T","U","V","W","X","Y","Z">>
Lower == <<"a","b","c","d","e","f","g","h","i","j","k","l","m",
           "n","o","p","q","r","s","t","u","v","w","x","y","z">>

\* str.lower() on one character
LowerChar(c) ==
    IF \E i \in 1..Len(Upper) : Upper[i] = c
    THEN Lower[CHOOSE i \in 1..Len(Upper) : Upper[i] = c]
    ELSE c

\* str.lower()
StrLower(s) == [i \in 1..Len(s) |-> LowerChar(s[i])]

\* str.rfind(c): index (1-based) of the last occurrence, 0 when absent
RFind(s, c) ==
    IF \E i \in 1..Len(s) : s[i] = c
    THEN CHOOSE i \in 1..Len(s) : s[i] = c /\ \A j \in (i+1)..Len(s) : s[j] # c
    ELSE 0

\* str.lstrip(c)
RECURSIVE LStrip(_, _)
LStrip(s, c) == IF s # <<>> /\ Head(s) = c THEN LStrip(Tail(s), c) ELSE s

\* str.rstrip(c)
RECURSIVE RStrip(_, _)
RStrip(s, c) ==
    IF s # <<>> /\ s[Len(s)] = c THEN RStrip(SubSeq(s, 1, Len(s) - 1), c) ELSE s

\* str.strip() (whitespace is the blank here)
Strip(s) == RStrip(LStrip(s, " "), " ")

\* str.split(c)
RECURSIVE Split(_, _)
Split(s, c) ==
    IF \E i \in 1..Len(s) : s[i] = c
    THEN LET i == CHOOSE k \in 1..Len(s) : s[k] = c /\ \A j \in 1..(k-1) : s[j] # c
         IN  <<SubSeq(s, 1, i - 1)>> \o Split(SubSeq(s, i + 1, Len(s)), c)
    ELSE <<s>>

\* pathlib: PurePath(name).suffix for a file name without directory part
PathSuffix(name) ==
    LET i == RFind(name, ".")
    IN  IF 1 < i /\ i < Len(name) THEN SubSeq(name, i, Len(name)) ELSE <<>>

----------------------------------------------------------------------------
(* Settings (core/config.py) *)

\* an absent text value: None (a missing header, an unset API_TOKEN, no identity)
None == "None"
\* an absent (undeclared) upload size
NoSize == -1

Jpg == <<"j","p","g">>
Png == <<"p","n","g">>

\* Settings.parse_allowed_extensions: a comma-separated string is split and
\* each part stripped; a list is kept as it is
parse_allowed_extensions(v) ==
    IF v.kind = "str"
    THEN LET parts == Split(v.val, ",") IN [i \in 1..Len(parts) |-> Strip(parts[i])]
    ELSE v.val

\* Settings.get_allowed_extensions_list(): the normalised allow-list
get_allowed_extensions_list(s) == s.allowed_extensions

\* the values ALLOWED_EXTENSIONS can be given as: a list, or a string from .env
RawAllowedExtensions ==
    { [kind |-> "list", val |-> <<Jpg, Png>>],
      [kind |-> "str",  val |-> <<"j","p","g",","," ","p","n","g">>],
      [kind |-> "str",  val |-> <<"J","P","G",",","p","n","g">>] }

\* the values MAX_FILE_SIZE is given in the runs checked
MaxFileSizes == {1000}

\* the bearer tokens a client can present, and the server-side API_TOKEN values
Tokens == {"secret", "wrong"}
ApiTokens == {None, "secret"}

\* the Settings instances of the service runs: the open variant has no auth fields
ServiceSettings ==
    { [variant |-> "open", require_auth |-> FALSE, api_token |-> None,
       max_file_size |-> m,
       allowed_extensions |-> parse_allowed_extensions([kind |-> "list", val |-> <<Jpg, Png>>])]
      : m \in MaxFileSizes }
    \cup
    { [variant |-> "auth", require_auth |-> ra, api_token |-> t,
       max_file_size |-> m,
       allowed_extensions |-> parse_allowed_extensions([kind |-> "list", val |-> <<Jpg, Png>>])]
      : ra \in BOOLEAN, t \in ApiTokens, m \in MaxFileSizes }

----------------------------------------------------------------------------
(* Upload validation (utils/file_utils.py) *)

\* UploadFile: filename (text; empty when the part names no file) and the
\* declared size (a number, or NoSize)
FileNames ==
    { <<>>,
      <<"p">>,
      <<".","j","p","g">>,
      <<"p",".","g","i","f">>,
      <<"p",".","j","p","g">>,
      <<"p",".","J","P","G">>,
      <<"p",".","P","n","g">>,
      <<"p",".","j","p","g",".","g","i","f">>,
      <<"p",".","g","i","f",".","p","n","g">> }
FileSizes == {NoSize, 0, 1, 999, 1000, 1001, 2000}
Uploads == [filename : FileNames, size : FileSizes]

\* the size check with the bound itself refused (>= for >)
SizeTooLarge_Inclusive(file, s) ==
    file.size # NoSize /\ file.size # 0 /\ file.size >= s.max_file_size

\* validate_image_file, the size check (line 18): `file.size and file.size > max`
SizeTooLarge(file, s) ==
    file.size # NoSize /\ file.size # 0 /\ file.size > s.max_file_size

\* validate_image_file, the extension of the file name (line 23)
FileExt(file) == LStrip(StrLower(PathSuffix(file.filename)), ".")

\* validate_image_file, the extension check (lines 22-26)
ExtNotAllowed(file, s) ==
    /\ file.filename # <<>>
    /\ LET allowed_exts == get_allowed_extensions_list(s)
       IN  \A i \in 1..Len(allowed_exts) : allowed_exts[i] # FileExt(file)

\* validate_image_file: "ValueError" when it raises, "ok" when it returns
validate_image_file(file, s) ==
    IF SizeTooLarge(file, s) THEN "ValueError"
    ELSE IF ExtNotAllowed(file, s) THEN "ValueError"
    ELSE "ok"

\* the validation called inside the try block: its ValueError becomes a 500
UploadStatus_InsideTry(file, s) ==
    IF validate_image_file(file, s) = "ValueError" THEN 500 ELSE 0

\* generate_video, lines 57-61: a ValueError of the validation becomes a 400;
\* 0 stands for "no response yet, the handler goes on"
UploadStatus(file, s) == IF validate_image_file(file, s) = "ValueError" THEN 400 ELSE 0

----------------------------------------------------------------------------
(* Authentication (gczm_ti_to_video/api/routes.py) *)

\* what a request carries in its Authorization header: nothing, or a bearer token
AuthHeaders == {None} \cup Tokens

\* the status HTTPBearer() (auto_error left at its default True) answers a
\* request without bearer credentials with: 403 in FastAPI before 0.122, 401 since
BearerRejectStatus == {401, 403}

\* a request's header together with the status HTTPBearer would reject it with;
\* that status is read only when the header is absent
AuthInputs == {x \in AuthHeaders \X BearerRejectStatus : x[1] = None \/ x[2] = 403}

\* security = HTTPBearer(): resolves the credentials, or rejects the request
HTTPBearer(auth, rej) ==
    IF auth = None
    THEN [status |-> rej, credentials |-> None]
    ELSE [status |-> 0, credentials |-> auth]

\* verify_api_token without the comparison of lines 49-54: any token passes
verify_api_token_AnyToken(s, credentials) ==
    IF ~s.require_auth THEN [status |-> 0, user |-> "anonymous"]
    ELSE IF credentials = None THEN [status |-> 401, user |-> None]
    ELSE IF s.api_token = None \/ s.api_token = "" THEN [status |-> 500, user |-> None]
    ELSE [status |-> 0, user |-> "authenticated_user"]

\* verify_api_token without the check of lines 43-47: an unset api_token is
\* compared like any other
verify_api_token_NoConfigCheck(s, credentials) ==
    IF ~s.require_auth THEN [status |-> 0, user |-> "anonymous"]
    ELSE IF credentials = None THEN [status |-> 401, user |-> None]
    ELSE IF credentials # s.api_token THEN [status |-> 401, user |-> None]
    ELSE [status |-> 0, user |-> "authenticated_user"]

\* verify_api_token: the status it raises (0: none) and the identity it returns
verify_api_token(s, credentials) ==
    IF ~s.require_auth THEN [status |-> 0, user |-> "anonymous"]
    ELSE IF credentials = None THEN [status |-> 401, user |-> None]
    ELSE IF s.api_token = None \/ s.api_token = "" THEN [status |-> 500, user |-> None]
    ELSE IF credentials # s.api_token THEN [status |-> 401, user |-> None]
    ELSE [status |-> 0, user |-> "authenticated_user"]

\* the dependencies in front of a route: none in the open variant; in the
\* authenticated variant Depends(verify_api_token), itself Depends(security)
Authenticate(s, auth, rej) ==
    IF s.variant = "open" THEN [status |-> 0, user |-> None]
    ELSE LET b == HTTPBearer(auth, rej)
         IN  IF b.status # 0 THEN [status |-> b.status, user |-> None]
             ELSE verify_api_token(s, b.credentials)

----------------------------------------------------------------------------
(* Generation engine (models/wan_model.py) *)

\* the ways one load_model call can end: it returns, or one of its steps raises
\* (the offload step runs on the configured device "cuda" with a GPU present)
LoadOutcomes == {"ok", "path_missing", "vae_error", "pipeline_error", "offload_error"}

\* a handle is named by the load that built it; a name is free for a new load
\* once no handle carries it. The name of a load that replaces the pipeline and
\* leaves the preprocessor ip in place:
FreshTag(ip) == IF ip = 1 THEN 2 ELSE 1

\* load_model that drops both handles when a step of it fails
load_model_ClearsOnFailure(p, ip, outcome) ==
    IF outcome # "ok"
    THEN [pipe |-> 0, image_processor |-> 0, raised |-> TRUE]
    ELSE [pipe |-> 1, image_processor |-> 1, raised |-> FALSE]

\* load_model that installs its handles only when every step has succeeded
load_model_Transactional(p, ip, outcome) ==
    IF outcome # "ok"
    THEN [pipe |-> p, image_processor |-> ip, raised |-> TRUE]
    ELSE [pipe |-> 1, image_processor |-> 1, raised |-> FALSE]

\* load_model with the preprocessor built before the offload step: a failure
\* of the offload leaves both handles of the failed load in place
load_model_EarlyProcessor(p, ip, outcome) ==
    IF outcome \in {"path_missing", "vae_error", "pipeline_error"}
    THEN [pipe |-> p, image_processor |-> ip, raised |-> TRUE]
    ELSE IF outcome = "offload_error"
    THEN [pipe |-> 1, image_processor |-> 1, raised |-> TRUE]
    ELSE [pipe |-> 1, image_processor |-> 1, raised |-> FALSE]

\* load_model that builds the preprocessor on the first load only and drops
\* it when it finds one
load_model_DropsProcessor(p, ip, outcome) ==
    IF outcome \in {"path_missing", "vae_error", "pipeline_error"}
    THEN [pipe |-> p, image_processor |-> ip, raised |-> TRUE]
    ELSE IF outcome = "offload_error"
    THEN [pipe |-> FreshTag(ip), image_processor |-> ip, raised |-> TRUE]
    ELSE [pipe |-> 1, image_processor |-> IF ip = 0 THEN 1 ELSE 0, raised |-> FALSE]

\* WanVideoModel.load_model on handles p (pipe) and ip (image_processor): the
\* handles it leaves and whether it raised. self.pipe is assigned at line 103,
\* before the offload step; self.image_processor at line 117, as the last step;
\* the except clause logs and re-raises
load_model(p, ip, outcome) ==
    IF outcome \in {"path_missing", "vae_error", "pipeline_error"}
    THEN [pipe |-> p, image_processor |-> ip, raised |-> TRUE]
    ELSE IF outcome = "offload_error"
    THEN [pipe |-> FreshTag(ip), image_processor |-> ip, raised |-> TRUE]
    ELSE [pipe |-> 1, image_processor |-> 1, raised |-> FALSE]

\* is_loaded that looks at the pipeline handle only
is_loaded_PipeOnly(p, ip) == p # 0

\* WanVideoModel.is_loaded
is_loaded(p, ip) == p # 0 /\ ip # 0

\* the methods class WanVideoModel defines
WanVideoModelMethods ==
    {"__init__", "load_model", "is_loaded", "generate_video", "export_video"}

\* the ways the work of one generation can end
\* (export_partial: export_to_video raises after it has created the file)
GenOutcomes ==
    {"ok", "decode_error", "preprocess_error", "pipeline_error", "export_error",
     "export_partial"}

\* WanVideoModel.generate_video: which error it raises ("ok": it returns the
\* frames) and whether self.pipe was called
generate_video(p, ip, env) ==
    IF ~is_loaded(p, ip) THEN [raised |-> "not_loaded", pipe_called |-> FALSE]
    ELSE IF env = "preprocess_error" THEN [raised |-> env, pipe_called |-> FALSE]
    ELSE IF env = "pipeline_error" THEN [raised |-> env, pipe_called |-> TRUE]
    ELSE [raised |-> "ok", pipe_called |-> TRUE]

\* WanVideoModel.export_video: whether export_to_video raised
export_video(env) == IF env \in {"export_error", "export_partial"} THEN env ELSE "ok"

----------------------------------------------------------------------------
(* Requests and responses *)

Routes == {"health", "generate_video", "generate_video_from_text", "model_info", "model_reload"}

\* the two generation routes
GenRoutes == {"generate_video", "generate_video_from_text"}

NoUpload == [filename |-> <<>>, size |-> NoSize]
NoFile == <<"", 0>>

\* the uploads sent to the running service
ServiceUploads ==
    { [filename |-> <<"p",".","j","p","g">>, size |-> 1000],
      [filename |-> <<"p",".","j","p","g">>, size |-> 1001],
      [filename |-> <<"p",".","g","i","f">>, size |-> 1000] }

\* one handler step: the request it serves (route, Authorization header, whether
\* the prompt field is present, the upload), what the environment does to it
\* (env), and what the step does: status is the HTTP status of the response (0:
\* no response yet), user the resolved identity, handler_ran whether the route
\* function's body was entered, engine_call the engine method called ("none" if
\* none), pipe_called whether self.pipe was invoked, loaded what is_loaded()
\* answers at the end of the step, follows_reload whether the step before it
\* was a /model/reload that reported success, follows_partial_load whether it
\* was a /model/reload whose load failed at the offload step
Event(route, step, auth, prompt, upload, env) ==
    [route |-> route, step |-> step, auth |-> auth, prompt |-> prompt,
     upload |-> upload, env |-> env,
     status |-> 0, user |-> None, handler_ran |-> FALSE, engine_call |-> "none",
     pipe_called |-> FALSE, loaded |-> is_loaded(pipe, image_processor),
     media_type |-> "none", filename |-> NoFile, detail |-> "none",
     follows_reload |-> last.route = "model_reload" /\ last.status = 200,
     follows_partial_load |-> last.route = "model_reload" /\ last.detail = "offload_error"]

\* the output directory when the file of a request is opened before the engine
\* is called
OutputAfter_EarlyOpen(dir, name, raised, exported) == dir \cup {name}

\* the files under output_dir after the work of an image request: the path is
\* built and export_video called only when generate_video returned frames, and
\* a failed export may or may not have created the file already
OutputAfter(dir, name, raised, exported) ==
    IF raised # "ok" THEN dir
    ELSE IF exported = "export_error" THEN dir
    ELSE dir \cup {name}

\* a token taken from the number of requests in flight, not from uuid4
FreshHex_InFlight == Cardinality({r \in DOMAIN pc : pc[r].at # "idle"})

\* a fresh uuid4().hex: a token no file of output_dir carries
FreshHex == Cardinality(output_dir) + 1

\* the slot a new image request occupies while it is in flight
FreeSlot(r) == pc[r].at = "idle" /\ \A q \in 1..(r - 1) : pc[q].at # "idle"

Idle == [at |-> "idle", user |-> None]

Slots == 1..MaxInFlight

\* the requests inside `await model.generate_video(...)`
Running == {r \in Slots : pc[r].at = "generating"}

\* the event loop as if generation ran on a worker and left the loop free
LoopFree_Offloaded == TRUE

\* the event loop as if it kept serving while one generation is inside
LoopFree_OneAhead == Cardinality(Running) < 2

\* the event loop can run a step of a request: every handler is an `async def`
\* run on the one loop, and generate_video (wan_model.py 129-175) has no await
\* inside, so the loop is held from the entry of the call to its return
LoopFree == Running = {}

\* the admission as if `prompt` were declared Form(None): a missing field is
\* not an error
Admit_PromptOptional(s, auth, rej, prompt_required, prompt) ==
    Authenticate(s, auth, rej)

\* what FastAPI does before the route function runs: the dependencies are
\* resolved (an HTTPException of a dependency ends the request), then a missing
\* required form field ends it with 422
Admit(s, auth, rej, prompt_required, prompt) ==
    LET a == Authenticate(s, auth, rej)
    IN  IF a.status # 0 THEN a
        ELSE IF prompt_required /\ ~prompt THEN [status |-> 422, user |-> a.user]
        ELSE a

----------------------------------------------------------------------------
(* Initial state: the module-level singletons, before the lifespan starts *)

Init ==
    /\ settings \in ServiceSettings
    /\ phase = "starting"
    /\ pipe = 0
    /\ image_processor = 0
    /\ loads = [startup |-> "none", reloaded |-> FALSE]
    /\ pc = [r \in Slots |-> Idle]
    /\ output_dir = {}
    /\ last = [route |-> "none", step |-> "none", auth |-> None, prompt |-> FALSE,
               upload |-> NoUpload, env |-> "none",
               status |-> 0, user |-> None, handler_ran |-> FALSE, engine_call |-> "none",
               pipe_called |-> FALSE, loaded |-> FALSE,
               media_type |-> "none", filename |-> NoFile, detail |-> "none",
               follows_reload |-> FALSE, follows_partial_load |-> FALSE]
    /\ v_in = [file |-> NoUpload, raw |-> [kind |-> "list", val |-> <<>>], max_file_size |-> 0]
    /\ v_out = [done |-> FALSE, result |-> "none", status |-> 0]

----------------------------------------------------------------------------
(* Application lifespan (main.py) *)

\* lifespan, up to the yield: ensure_directories(), then load_model(); an
\* exception of the load is logged and dropped
Startup(outcome) ==
    /\ phase = "starting"
    /\ outcome \in LoadOutcomes
    /\ LET l == load_model(pipe, image_processor, outcome)
       IN  /\ pipe' = l.pipe
           /\ image_processor' = l.image_processor
           /\ loads' = [loads EXCEPT !.startup = IF l.raised THEN "failed" ELSE "ok"]
           /\ last' = [Event("startup", "whole", None, FALSE, NoUpload, outcome)
                         EXCEPT !.engine_call = "load_model",
                                !.loaded = is_loaded(l.pipe, l.image_processor)]
    /\ phase' = "serving"
    /\ UNCHANGED <<settings, pc, output_dir, v_in, v_out>>

----------------------------------------------------------------------------
(* Routes (api/routes.py of both variants) *)

\* GET /health
health_check(auth, rej) ==
    /\ phase = "serving"
    /\ LoopFree
    /\ LET a == Admit(settings, auth, rej, FALSE, FALSE)
           e == Event("health", "whole", auth, FALSE, NoUpload, "none")
       IN  last' = IF a.status # 0
                   THEN [e EXCEPT !.status = a.status]
                   ELSE [e EXCEPT !.status = 200, !.user = a.user, !.handler_ran = TRUE]
    /\ UNCHANGED <<settings, phase, pipe, image_processor, loads, pc,
                   output_dir, v_in, v_out>>

\* GET /model/info
model_info(auth, rej) ==
    /\ phase = "serving"
    /\ LoopFree
    /\ LET a == Admit(settings, auth, rej, FALSE, FALSE)
           e == Event("model_info", "whole", auth, FALSE, NoUpload, "none")
       IN  last' = IF a.status # 0
                   THEN [e EXCEPT !.status = a.status]
                   ELSE [e EXCEPT !.status = 200, !.user = a.user, !.handler_ran = TRUE]
    /\ UNCHANGED <<settings, phase, pipe, image_processor, loads, pc,
                   output_dir, v_in, v_out>>

\* POST /model/reload: load_model() has no await inside, it runs in one piece
reload_model(auth, rej, outcome) ==
    /\ phase = "serving"
    /\ LoopFree
    /\ outcome \in LoadOutcomes
    /\ LET a == Admit(settings, auth, rej, FALSE, FALSE)
           e == Event("model_reload", "whole", auth, FALSE, NoUpload, outcome)
           l == load_model(pipe, image_processor, outcome)
       IN  IF a.status # 0
           THEN /\ last' = [e EXCEPT !.status = a.status]
                /\ UNCHANGED <<pipe, image_processor, loads>>
           ELSE /\ pipe' = l.pipe
                /\ image_processor' = l.image_processor
                /\ loads' = [loads EXCEPT !.reloaded = @ \/ ~l.raised]
                /\ last' = [e EXCEPT !.status = IF l.raised THEN 500 ELSE 200,
                                     !.detail = IF l.raised THEN outcome ELSE "success",
                                     !.user = a.user,
                                     !.handler_ran = TRUE,
                                     !.engine_call = "load_model",
                                     !.loaded = is_loaded(l.pipe, l.image_processor)]
    /\ UNCHANGED <<settings, phase, pc, output_dir, v_in, v_out>>

\* POST /generate_video_from_text: the route calls model.generate_video_from_text,
\* which class WanVideoModel does not define, so the call raises AttributeError
\* inside the try block; were it defined, lines 151-170 export and answer
generate_video_from_text(auth, rej, prompt, env) ==
    /\ phase = "serving"
    /\ LoopFree
    /\ env \in {"ok", "pipeline_error", "export_error"}
    /\ LET a == Admit(settings, auth, rej, TRUE, prompt)
           e == Event("generate_video_from_text", "whole", auth, prompt, NoUpload, env)
           ran == [e EXCEPT !.user = a.user, !.handler_ran = TRUE]
           name == <<"generated_video_text_", FreshHex>>
       IN  IF a.status # 0
           THEN last' = [e EXCEPT !.status = a.status] /\ UNCHANGED output_dir
           ELSE IF ~is_loaded(pipe, image_processor)
           THEN /\ last' = [ran EXCEPT !.status = 503, !.detail = "Model not loaded"]
                /\ UNCHANGED output_dir
           ELSE IF "generate_video_from_text" \notin WanVideoModelMethods
           THEN /\ last' = [ran EXCEPT !.status = 500, !.detail = "AttributeError"]
                /\ UNCHANGED output_dir
           ELSE IF env = "pipeline_error"
           THEN /\ last' = [ran EXCEPT !.status = 500, !.detail = env,
                                       !.engine_call = "generate_video_from_text",
                                       !.pipe_called = TRUE]
                /\ UNCHANGED output_dir
           ELSE IF export_video(env) # "ok"
           THEN /\ last' = [ran EXCEPT !.status = 500, !.detail = env,
                                       !.engine_call = "generate_video_from_text",
                                       !.pipe_called = TRUE]
                /\ UNCHANGED output_dir
           ELSE /\ Cardinality(output_dir) < MaxFiles
                /\ output_dir' = output_dir \cup {name}
                /\ last' = [ran EXCEPT !.status = 200, !.media_type = "video/mp4",
                                       !.filename = name,
                                       !.engine_call = "generate_video_from_text",
                                       !.pipe_called = TRUE]
    /\ UNCHANGED <<settings, phase, pipe, image_processor, loads, pc, v_in, v_out>>

\* POST /generate_video, lines 54-72: from the entry of the route function to
\* `await image.read()`, where the request is suspended
generate_video_start(r, auth, rej, prompt, upload) ==
    /\ phase = "serving"
    /\ LoopFree
    /\ FreeSlot(r)
    /\ upload \in ServiceUploads
    /\ LET a == Admit(settings, auth, rej, TRUE, prompt)
           e == Event("generate_video", "start", auth, prompt, upload, "none")
           ran == [e EXCEPT !.user = a.user, !.handler_ran = TRUE]
       IN  IF a.status # 0
           THEN last' = [e EXCEPT !.status = a.status] /\ UNCHANGED pc
           ELSE IF ~is_loaded(pipe, image_processor)
           THEN /\ last' = [ran EXCEPT !.status = 503, !.detail = "Model not loaded"]
                /\ UNCHANGED pc
           ELSE IF UploadStatus(upload, settings) # 0
           THEN /\ last' = [ran EXCEPT !.status = UploadStatus(upload, settings),
                                       !.detail = "ValueError"]
                /\ UNCHANGED pc
           ELSE /\ last' = ran
                /\ pc' = [pc EXCEPT ![r] = [at |-> "reading", user |-> a.user]]
    /\ UNCHANGED <<settings, phase, pipe, image_processor, loads,
                   output_dir, v_in, v_out>>

\* POST /generate_video, lines 72-77: the return of `await image.read()`,
\* Image.open, and the entry into `await model.generate_video(...)`
generate_video_call(r, env) ==
    /\ phase = "serving"
    /\ LoopFree
    /\ pc[r].at = "reading"
    /\ env \in {"ok", "decode_error"}
    /\ LET e == [Event("generate_video", "call", None, TRUE, NoUpload, env)
                   EXCEPT !.user = pc[r].user, !.handler_ran = TRUE]
       IN  IF env = "decode_error"
           THEN /\ last' = [e EXCEPT !.status = 500, !.detail = env]
                /\ pc' = [pc EXCEPT ![r] = Idle]
           ELSE /\ last' = [e EXCEPT !.engine_call = "generate_video"]
                /\ pc' = [pc EXCEPT ![r].at = "generating"]
    /\ UNCHANGED <<settings, phase, pipe, image_processor, loads,
                   output_dir, v_in, v_out>>

\* POST /generate_video, lines 77-110: model.generate_video runs and returns or
\* raises, then export_video and the response; neither has an await inside
generate_video_finish(r, env) ==
    /\ phase = "serving"
    /\ pc[r].at = "generating"
    /\ env \in GenOutcomes \ {"decode_error"}
    /\ LET e == [Event("generate_video", "finish", None, TRUE, NoUpload, env)
                   EXCEPT !.user = pc[r].user, !.handler_ran = TRUE]
           g == generate_video(pipe, image_processor, env)
           called == [e EXCEPT !.engine_call = "generate_video",
                               !.pipe_called = g.pipe_called]
           name == <<"generated_video_", FreshHex>>
       IN  /\ output_dir' = OutputAfter(output_dir, name, g.raised, export_video(env))
           /\ Cardinality(output_dir') <= MaxFiles
           /\ last' = IF g.raised # "ok"
                      THEN [called EXCEPT !.status = 500, !.detail = g.raised]
                      ELSE IF export_video(env) # "ok"
                      THEN [called EXCEPT !.status = 500, !.detail = env]
                      ELSE [called EXCEPT !.status = 200, !.media_type = "video/mp4",
                                          !.filename = name]
    /\ pc' = [pc EXCEPT ![r] = Idle]
    /\ UNCHANGED <<settings, phase, pipe, image_processor, loads, v_in, v_out>>

\* lifespan after the yield (main.py 35-36): the server has let the requests
\* in flight end; the shutdown code only logs
Shutdown ==
    /\ phase = "serving"
    /\ \A r \in Slots : pc[r].at = "idle"
    /\ phase' = "stopped"
    /\ last' = Event("shutdown", "whole", None, FALSE, NoUpload, "none")
    /\ UNCHANGED <<settings, pipe, image_processor, loads, pc, output_dir, v_in, v_out>>

Next ==
    \/ \E outcome \in LoadOutcomes : Startup(outcome)
    \/ \E a \in AuthInputs : health_check(a[1], a[2])
    \/ \E a \in AuthInputs : model_info(a[1], a[2])
    \/ \E a \in AuthInputs, outcome \in LoadOutcomes : reload_model(a[1], a[2], outcome)
    \/ \E a \in AuthInputs, prompt \in BOOLEAN, env \in {"ok", "pipeline_error", "export_error"} :
          generate_video_from_text(a[1], a[2], prompt, env)
    \/ \E r \in Slots, a \in AuthInputs, prompt \in BOOLEAN, upload \in ServiceUploads :
          generate_video_start(r, a[1], a[2], prompt, upload)
    \/ \E r \in Slots, env \in {"ok", "decode_error"} : generate_video_call(r, env)
    \/ \E r \in Slots, env \in GenOutcomes \ {"decode_error"} :
          generate_video_finish(r, env)
    \/ Shutdown

Spec == Init /\ [][Next]_vars

----------------------------------------------------------------------------
(* Upload validation on its own: every upload against every configuration *)

\* the Settings instance built from raw ALLOWED_EXTENSIONS and MAX_FILE_SIZE
SettingsOf(raw, max) ==
    [variant |-> "open", require_auth |-> FALSE, api_token |-> None,
     max_file_size |-> max, allowed_extensions |-> parse_allowed_extensions(raw)]

InitValidate ==
    /\ v_in \in [file : Uploads, raw : RawAllowedExtensions, max_file_size : MaxFileSizes]
    /\ v_out = [done |-> FALSE, result |-> "none", status |-> 0]
    /\ settings = SettingsOf(v_in.raw, v_in.max_file_size)
    /\ phase = "starting"
    /\ pipe = 0
    /\ image_processor = 0
    /\ loads = [startup |-> "none", reloaded |-> FALSE]
    /\ pc = [r \in Slots |-> Idle]
    /\ output_dir = {}
    /\ last = [route |-> "none", step |-> "none", auth |-> None, prompt |-> FALSE,
               upload |-> NoUpload, env |-> "none",
               status |-> 0, user |-> None, handler_ran |-> FALSE, engine_call |-> "none",
               pipe_called |-> FALSE, loaded |-> FALSE,
               media_type |-> "none", filename |-> NoFile, detail |-> "none",
               follows_reload |-> FALSE, follows_partial_load |-> FALSE]

\* validate_image_file(image, settings) as the route calls it (lines 57-61)
ValidateUpload ==
    /\ ~v_out.done
    /\ v_out' = [done |-> TRUE,
                 result |-> validate_image_file(v_in.file, settings),
                 status |-> UploadStatus(v_in.file, settings)]
    /\ UNCHANGED <<v_in, svc_vars>>

NextValidate == ValidateUpload

SpecValidate == InitValidate /\ [][NextValidate]_vars

----------------------------------------------------------------------------
(* The image preprocessor on its own (ImageProcessor.__call__) *)

\* the state of the service, untouched while a function is checked on its own
ServiceAtRest ==
    /\ settings = SettingsOf([kind |-> "list", val |-> <<>>], 0)
    /\ phase = "starting"
    /\ pipe = 0
    /\ image_processor = 0
    /\ loads = [startup |-> "none", reloaded |-> FALSE]
    /\ pc = [r \in Slots |-> Idle]
    /\ output_dir = {}
    /\ last = [route |-> "none", step |-> "none", auth |-> None, prompt |-> FALSE,
               upload |-> NoUpload, env |-> "none",
               status |-> 0, user |-> None, handler_ran |-> FALSE, engine_call |-> "none",
               pipe_called |-> FALSE, loaded |-> FALSE,
               media_type |-> "none", filename |-> NoFile, detail |-> "none",
               follows_reload |-> FALSE, follows_partial_load |-> FALSE]

\* image sizes and area limits handed to the preprocessor
ImageSizes == 1..MaxDim
MaxAreas == {16, 64, 144, 256}

\* n rounded to the nearest multiple of 8
Floor8_Nearest(n) == ((n + 4) \div 8) * 8

\* n rounded up to a multiple of 8
Floor8_Up(n) == ((n + 7) \div 8) * 8

\* (n // 8) * 8
Floor8(n) == (n \div 8) * 8

\* floor(side * sqrt(max_area / (side * other))) in exact arithmetic: the
\* largest n with n * n * other <= side * max_area
ExactScaled(side, other, max_area) ==
    CHOOSE n \in 0..side :
        /\ n * n * other <= side * max_area
        /\ (n + 1) * (n + 1) * other > side * max_area

\* int(side * scale_factor) as lines 45-47 compute it, in double precision:
\* the exact floor, except that a product that is exactly an integer n can
\* come out just below n after the rounding of the quotient, the root and the
\* product, and int() then gives n - 1 (17 x 17 with max_area 144 gives 11)
ScaledSide(side, other, max_area) ==
    LET n == ExactScaled(side, other, max_area)
    IN  IF n * n * other = side * max_area THEN {n - 1, n} ELSE {n}

\* the comparison of line 44 with "or equal"
ExceedsArea_OrEqual(width, height, max_area) == width * height >= max_area

\* line 44: original_area > max_area
ExceedsArea(width, height, max_area) == width * height > max_area

\* ImageProcessor.__call__ on a decoded image of width x height, lines 40-63;
\* sw and sh are int(original_width * scale_factor) and
\* int(original_height * scale_factor) (0 where line 44 skips them). width,
\* height: the size of the image
\* it returns, or the size it asks of image.resize when that raises (PIL
\* refuses a size with a zero: "height and width must be > 0")
ImageProcessorCall(width, height, max_area, sw, sh) ==
    LET over == ExceedsArea(width, height, max_area)
        new_width == IF over THEN Floor8(sw) ELSE Floor8(width)
        new_height == IF over THEN Floor8(sh) ELSE Floor8(height)
        resized == over \/ new_width # width \/ new_height # height
    IN  [width |-> new_width, height |-> new_height, resized |-> resized,
         raised |-> resized /\ (new_width = 0 \/ new_height = 0)]

\* no call of the preprocessor made yet
NotCalled == [done |-> FALSE, width |-> 0, height |-> 0,
              resized |-> FALSE, raised |-> FALSE]

\* the values int() can give at lines 46-47 for a width x height image, (0, 0)
\* where line 44 skips them
ScaledSizes(width, height, max_area, sw, sh) ==
    IF ExceedsArea(width, height, max_area)
    THEN /\ sw \in ScaledSide(width, height, max_area)
         /\ sh \in ScaledSide(height, width, max_area)
    ELSE sw = 0 /\ sh = 0

\* what one call of the preprocessor gives
Called(width, height, max_area, sw, sh) ==
    LET o == ImageProcessorCall(width, height, max_area, sw, sh)
    IN  [done |-> TRUE, width |-> o.width, height |-> o.height,
         resized |-> o.resized, raised |-> o.raised]

InitPreprocess ==
    /\ v_in \in [width : ImageSizes, height : ImageSizes, max_area : MaxAreas]
    /\ v_out = NotCalled @@ [again |-> NotCalled]
    /\ ServiceAtRest

\* image_processor(image, max_area=max_area) as generate_video calls it
Preprocess(sw, sh) ==
    /\ ~v_out.done
    /\ ScaledSizes(v_in.width, v_in.height, v_in.max_area, sw, sh)
    /\ v_out' = Called(v_in.width, v_in.height, v_in.max_area, sw, sh)
                   @@ [again |-> NotCalled]
    /\ UNCHANGED <<v_in, svc_vars>>

\* the preprocessor called with the same max_area on the image it returned
PreprocessAgain(sw, sh) ==
    /\ v_out.done /\ ~v_out.raised
    /\ ~v_out.again.done
    /\ ScaledSizes(v_out.width, v_out.height, v_in.max_area, sw, sh)
    /\ v_out' = [v_out EXCEPT !.again =
                     Called(v_out.width, v_out.height, v_in.max_area, sw, sh)]
    /\ UNCHANGED <<v_in, svc_vars>>

NextPreprocess ==
    \E sw \in 0..MaxDim, sh \in 0..MaxDim :
        \/ Preprocess(sw, sh)
        \/ PreprocessAgain(sw, sh)

SpecPreprocess == InitPreprocess /\ [][NextPreprocess]_vars

----------------------------------------------------------------------------
(* The numeric form fields of a generation request (routes.py 63-67, 133-136) *)

\* a form field the client left out: Form(default=None)
Omitted == -1

\* Settings' generation defaults (core/config.py); 5 stands for the float 5.0
default_num_frames == 121
default_num_inference_steps == 50
default_guidance_scale == 5
default_max_area == 901120

\* what a client sends in a numeric field, per field: nothing, 0, or a value
\* of its own
FieldsSent ==
    [num_frames : {Omitted, 0, 81}, num_inference_steps : {Omitted, 0, 30},
     guidance_scale : {Omitted, 0, 7}, max_area : {Omitted, 0, 256}]

\* Python's `x or default`: None, 0 and 0.0 are false
OrDefault(x, default) == IF x = Omitted \/ x = 0 THEN default ELSE x

\* the keyword arguments the route hands to the engine method (lines 77-85 for
\* the image route, 141-149 for the text route, which has no max_area field)
ResolveDefaults(route, f) ==
    [num_frames |-> OrDefault(f.num_frames, default_num_frames),
     num_inference_steps |-> OrDefault(f.num_inference_steps, default_num_inference_steps),
     guidance_scale |-> OrDefault(f.guidance_scale, default_guidance_scale),
     max_area |-> IF route = "generate_video"
                  THEN OrDefault(f.max_area, default_max_area)
                  ELSE Omitted]

InitParams ==
    /\ v_in \in [route : GenRoutes, fields : FieldsSent]
    /\ v_out = [done |-> FALSE,
                handed |-> [num_frames |-> Omitted, num_inference_steps |-> Omitted,
                            guidance_scale |-> Omitted, max_area |-> Omitted]]
    /\ ServiceAtRest

\* the route resolves the fields of one request
Resolve ==
    /\ ~v_out.done
    /\ v_out' = [done |-> TRUE, handed |-> ResolveDefaults(v_in.route, v_in.fields)]
    /\ UNCHANGED <<v_in, svc_vars>>

NextParams == Resolve

SpecParams == InitParams /\ [][NextParams]_vars

----------------------------------------------------------------------------
(* The launcher (scripts/start_server.py), from the entry of main() with a
   command line argparse accepts *)

\* what the launcher finds: its flag, whether every required package imports,
\* whether get_settings() returns, the model directory, the GPU, and how the
\* server subprocess ends. A directory that does not exist holds no files
LauncherRuns ==
    { e \in [skip_checks : BOOLEAN, packages_ok : BOOLEAN, settings_ok : BOOLEAN,
             path_exists : BOOLEAN, model_index : BOOLEAN, config_json : BOOLEAN,
             configuration_json : BOOLEAN,
             gpu : {"available", "unavailable", "error"},
             server : {"returns", "KeyboardInterrupt", "error"}] :
        ~e.path_exists => ~(e.model_index \/ e.config_json \/ e.configuration_json) }

\* check_model_path(settings.model_path)
check_model_path(e) ==
    IF ~e.path_exists THEN FALSE
    ELSE IF ~e.model_index THEN FALSE
    ELSE IF ~(e.config_json \/ e.configuration_json) THEN FALSE
    ELSE TRUE

\* check_dependencies(): False if one of the required packages fails to import
check_dependencies(e) == e.packages_ok

\* check_gpu(): an exception inside is caught and answered False
check_gpu(e) == e.gpu = "available"

\* where main goes after check_gpu() as if its answer were required
AfterGpu_Required(gpu_ok) == IF gpu_ok THEN "start_server" ELSE "exit"

\* where main goes after check_gpu(): line 179 drops the answer
AfterGpu(gpu_ok) == "start_server"

LauncherAt(at, checks, launched, code) ==
    [at |-> at, checks |-> checks, launched |-> launched, exit_code |-> code]

InitLauncher ==
    /\ v_in \in LauncherRuns
    /\ v_out = LauncherAt("main", <<>>, FALSE, 0)
    /\ ServiceAtRest

\* main, lines 152-164: the arguments are parsed, the banner printed
main ==
    /\ v_out.at = "main"
    /\ v_out' = [v_out EXCEPT !.at = IF v_in.skip_checks THEN "start_server"
                                     ELSE "check_dependencies"]
    /\ UNCHANGED <<v_in, svc_vars>>

\* main, lines 166-167
main_check_dependencies ==
    /\ v_out.at = "check_dependencies"
    /\ LET checks == Append(v_out.checks, "dependencies")
       IN  v_out' = IF check_dependencies(v_in)
                    THEN LauncherAt("check_model_path", checks, FALSE, 0)
                    ELSE LauncherAt("exit", checks, FALSE, 1)
    /\ UNCHANGED <<v_in, svc_vars>>

\* main, lines 172-174: an exception of get_settings() is not caught and ends
\* the process with exit code 1
main_check_model_path ==
    /\ v_out.at = "check_model_path"
    /\ LET checks == Append(v_out.checks, "model_path")
       IN  v_out' = IF ~v_in.settings_ok
                    THEN LauncherAt("exit", v_out.checks, FALSE, 1)
                    ELSE IF check_model_path(v_in)
                    THEN LauncherAt("check_gpu", checks, FALSE, 0)
                    ELSE LauncherAt("exit", checks, FALSE, 1)
    /\ UNCHANGED <<v_in, svc_vars>>

\* main, line 179
main_check_gpu ==
    /\ v_out.at = "check_gpu"
    /\ LET checks == Append(v_out.checks, "gpu")
           to == AfterGpu(check_gpu(v_in))
       IN  v_out' = IF to = "exit"
                    THEN LauncherAt("exit", checks, FALSE, 1)
                    ELSE LauncherAt(to, checks, FALSE, 0)
    /\ UNCHANGED <<v_in, svc_vars>>

\* start_server, up to subprocess.run(cmd, cwd=src_path)
start_server ==
    /\ v_out.at = "start_server"
    /\ v_out' = [v_out EXCEPT !.at = "subprocess", !.launched = TRUE]
    /\ UNCHANGED <<v_in, svc_vars>>

\* subprocess.run returns or raises; KeyboardInterrupt and Exception are
\* caught, start_server and main return, the process ends with exit code 0
server_ends ==
    /\ v_out.at = "subprocess"
    /\ v_out' = [v_out EXCEPT !.at = "exit", !.exit_code = 0]
    /\ UNCHANGED <<v_in, svc_vars>>

NextLauncher ==
    \/ main
    \/ main_check_dependencies
    \/ main_check_model_path
    \/ main_check_gpu
    \/ start_server
    \/ server_ends

SpecLauncher == InitLauncher /\ [][NextLauncher]_vars

----------------------------------------------------------------------------
(* list_output_files on its own (gczm_ti_to_video/utils/file_utils.py) *)

\* st_ctime values
Times == 1..3

\* a directory entry: a regular file or a subdirectory, with its stat values
DirEntries ==
    [filename : {<<"generated_video_", i>> : i \in 1..MaxEntries},
     is_file : BOOLEAN, size : {1000}, created : Times, modified : {1}]

\* what output_path.iterdir() yields, in the order it yields it: up to
\* MaxEntries entries with different names
Listings ==
    UNION { { l \in [1..n -> DirEntries] :
                \A i, j \in 1..n : i # j => l[i].filename # l[j].filename } :
            n \in 0..MaxEntries }

\* the record list_output_files builds for a file (lines 87-92): "created"
\* is st_ctime, "modified" st_mtime
FileRecord(e) ==
    [filename |-> e.filename, size |-> e.size, created |-> e.created,
     modified |-> e.modified]

\* x put into a list sorted by "created", oldest first
InsertByCreated_Ascending(sorted, x) ==
    LET k == Cardinality({i \in 1..Len(sorted) : sorted[i].created <= x.created})
    IN  SubSeq(sorted, 1, k) \o <<x>> \o SubSeq(sorted, k + 1, Len(sorted))

\* x put into a list sorted by "created", newest first, behind the records
\* that are as new (sorted() is stable, also with reverse=True)
InsertByCreated(sorted, x) ==
    LET k == Cardinality({i \in 1..Len(sorted) : sorted[i].created >= x.created})
    IN  SubSeq(sorted, 1, k) \o <<x>> \o SubSeq(sorted, k + 1, Len(sorted))

\* sorted(files, key=lambda x: x["created"], reverse=True)
RECURSIVE SortedByCreated(_)
SortedByCreated(files) ==
    IF files = <<>> THEN <<>>
    ELSE InsertByCreated(SortedByCreated(SubSeq(files, 1, Len(files) - 1)),
                         files[Len(files)])

\* the loop of lines 85-92: a record for every entry that is a regular file
RECURSIVE FileRecords(_)
FileRecords(listing) ==
    IF listing = <<>> THEN <<>>
    ELSE IF Head(listing).is_file
    THEN <<FileRecord(Head(listing))>> \o FileRecords(Tail(listing))
    ELSE FileRecords(Tail(listing))

\* list_output_files(output_dir)
list_output_files(exists, listing) ==
    IF ~exists THEN SortedByCreated(<<>>)
    ELSE SortedByCreated(FileRecords(listing))

InitListFiles ==
    /\ v_in \in { d \in [exists : BOOLEAN, listing : Listings] :
                    ~d.exists => d.listing = <<>> }
    /\ v_out = [done |-> FALSE, files |-> <<>>]
    /\ ServiceAtRest

ListFiles ==
    /\ ~v_out.done
    /\ v_out' = [done |-> TRUE, files |-> list_output_files(v_in.exists, v_in.listing)]
    /\ UNCHANGED <<v_in, svc_vars>>

NextListFiles == ListFiles

SpecListFiles == InitListFiles /\ [][NextListFiles]_vars

----------------------------------------------------------------------------
(* Properties *)

\* the step is the one in which a request arrives (not the resumption of a
\* suspended one)
Arrival == last.route \in Routes /\ last.step \in {"whole", "start"}

Unloaded == pipe = 0 \/ image_processor = 0

\* C1: a generation request that finds the engine unloaded (pipeline handle or
\* preprocessor handle absent) is refused as not loaded - 503 from the route,
\* the "not_loaded" error from the engine - and the pipeline is not invoked
C1_UnloadedGenerationRefused ==
    (last.route \in GenRoutes /\ last.handler_ran /\ Unloaded)
        => /\ last.status = 503 \/ (last.status = 500 /\ last.detail = "not_loaded")
           /\ ~last.pipe_called

\* C1 happens: a text request and a half-loaded engine (pipeline present,
\* preprocessor absent)
C1_Witness ==
    /\ last.route = "generate_video_from_text"
    /\ last.handler_ran
    /\ pipe # 0 /\ image_processor = 0
    /\ last.status = 503
    /\ ~last.pipe_called

\* C2: a failed startup load does not stop the service from serving; while no
\* reload has succeeded every generation request is answered 503, and once a
\* reload has succeeded none is
C2_DegradedUntilReload ==
    /\ (loads.startup = "failed" /\ last.route = "startup") => phase = "serving"
    /\ (loads.startup = "failed" /\ last.route \in GenRoutes /\ last.handler_ran)
          => IF loads.reloaded THEN last.status # 503 ELSE last.status = 503

\* C2 happens: startup failed, a reload succeeded, and an image request was
\* then answered with a video
C2_Witness ==
    /\ loads.startup = "failed"
    /\ loads.reloaded
    /\ last.route = "generate_video"
    /\ last.status = 200

\* C3: with the engine loaded and nothing failing in pipeline or export, a text
\* request with a prompt is answered 200, video/mp4, with a file name
\* generated_video_text_{hex}.mp4
C3_TextRequestReturnsVideo ==
    (/\ last.route = "generate_video_from_text"
     /\ last.handler_ran
     /\ last.prompt
     /\ ~Unloaded
     /\ last.env = "ok")
        => /\ last.status = 200
           /\ last.media_type = "video/mp4"
           /\ last.filename[1] = "generated_video_text_"

\* C4: an image request whose handler runs is answered in this precedence: 503
\* if the engine is not loaded, else 400 if the upload fails validation, else
\* 500 with the error as detail if decoding, generation or export raises, else
\* 200 with the MP4 file
C4_ImageRoutePrecedence ==
    /\ (last.route = "generate_video" /\ last.step = "start" /\ last.handler_ran)
          => last.status =
                IF Unloaded THEN 503
                ELSE IF validate_image_file(last.upload, settings) = "ValueError" THEN 400
                ELSE 0
    /\ (last.route = "generate_video" /\ last.step = "call")
          => IF last.env = "ok"
             THEN last.status = 0
             ELSE last.status = 500 /\ last.detail = last.env
    /\ (last.route = "generate_video" /\ last.step = "finish")
          => IF last.env = "ok"
             THEN last.status = 200 /\ last.media_type = "video/mp4"
                  /\ last.filename \in output_dir
             ELSE last.status = 500 /\ last.detail = last.env

\* C4 happens: an invalid upload sent to an unloaded engine, answered 503
C4_Witness ==
    /\ last.route = "generate_video"
    /\ last.handler_ran
    /\ Unloaded
    /\ validate_image_file(last.upload, settings) = "ValueError"
    /\ last.status = 503

\* C5: a /model/reload whose load does not fail reports success and leaves
\* both handles present, also when it follows a successful reload
C5_ReloadIdempotent ==
    (last.route = "model_reload" /\ last.handler_ran /\ last.env = "ok")
        => /\ last.status = 200
           /\ pipe # 0 /\ image_processor # 0
           /\ last.loaded

\* C5 happens: the second of two successful reloads in succession
C5_Witness ==
    /\ last.route = "model_reload"
    /\ last.follows_reload
    /\ last.env = "ok"
    /\ last.status = 200
    /\ last.loaded

\* C6: after a load that failed (at startup or in a reload, at whichever step),
\* both handles are absent and is_loaded is false
C6_FailedLoadLeavesUnloaded ==
    (last.engine_call = "load_model" /\ last.env # "ok")
        => pipe = 0 /\ image_processor = 0 /\ ~last.loaded

\* C7: in the authenticated variant a request without Authorization header is
\* answered 401 when require_auth is true, and runs the handler as "anonymous"
\* when require_auth is false
C7_NoHeader ==
    (settings.variant = "auth" /\ Arrival /\ last.auth = None)
        => IF settings.require_auth
           THEN last.status = 401 /\ ~last.handler_ran
           ELSE last.user = "anonymous" /\ last.status \notin {401, 403, 500}

\* C8: in the authenticated variant with require_auth true, a handler runs only
\* for a request whose bearer token equals the configured api_token, and then
\* as "authenticated_user"; with a token configured, a request with another
\* token is answered 401 and calls nothing of the engine
C8_OnlyConfiguredToken ==
    (settings.variant = "auth" /\ settings.require_auth)
        => /\ (Arrival /\ last.handler_ran)
                 => last.auth = settings.api_token /\ last.user = "authenticated_user"
           /\ (last.route \in Routes /\ last.handler_ran) => last.user = "authenticated_user"
           /\ \A r \in Slots : pc[r].at # "idle" => pc[r].user = "authenticated_user"
           /\ (Arrival /\ settings.api_token # None /\ last.auth # None
                 /\ last.auth # settings.api_token)
                 => /\ last.status = 401
                    /\ ~last.handler_ran
                    /\ last.engine_call = "none"
                    /\ ~last.pipe_called

\* C8 happens: a reload request with a wrong token, answered 401, no load
C8_Witness ==
    /\ settings.variant = "auth" /\ settings.require_auth
    /\ settings.api_token = "secret"
    /\ last.route = "model_reload"
    /\ last.auth = "wrong"
    /\ last.status = 401
    /\ last.engine_call = "none"

NoTokenConfigured ==
    settings.variant = "auth" /\ settings.require_auth /\ settings.api_token = None

\* C9, as claimed: with require_auth true and no api_token configured, every
\* request, with or without credentials, is answered 500
C9_Unconfigured500 ==
    (NoTokenConfigured /\ Arrival) => last.status = 500

\* C9, amended: with require_auth true and no api_token configured, a request
\* carrying a bearer token is answered 500, a request without credentials is
\* rejected as unauthenticated (401, or HTTPBearer's 403), and no handler runs
C9_Unconfigured500WithToken ==
    (NoTokenConfigured /\ Arrival)
        => /\ ~last.handler_ran
           /\ last.auth # None => last.status = 500
           /\ last.auth = None => last.status \in BearerRejectStatus

\* C9 happens: no api_token configured, a request with a bearer token, 500
C9_Witness ==
    /\ NoTokenConfigured
    /\ Arrival
    /\ last.auth = "secret"
    /\ last.status = 500

AllowedSet == {settings.allowed_extensions[i] : i \in 1..Len(settings.allowed_extensions)}
DeclaredTooLarge == v_in.file.size # NoSize /\ v_in.file.size > settings.max_file_size
ExampleSettings == settings.allowed_extensions = <<Jpg, Png>> /\ settings.max_file_size = 1000

\* the examples of C10: with [jpg, png] and 1000, photo.gif fails for every
\* size, photo.jpg with 1001 bytes fails, photo.JPG with 1000 bytes passes
C10_Examples ==
    (v_out.done /\ ExampleSettings)
        => /\ v_in.file.filename = <<"p",".","g","i","f">> => v_out.result = "ValueError"
           /\ (v_in.file.filename = <<"p",".","j","p","g">> /\ v_in.file.size = 1001)
                 => v_out.result = "ValueError"
           /\ (v_in.file.filename = <<"p",".","J","P","G">> /\ v_in.file.size = 1000)
                 => v_out.result = "ok"

\* C10, as claimed: validation fails exactly when the declared size exceeds
\* max_file_size or the lower-cased extension of the file name is not in the
\* allow-list; the examples hold; the route answers a failure with 400
C10_FailsExactlyWhen ==
    /\ v_out.done
          => /\ v_out.result = "ValueError" <=> (DeclaredTooLarge \/ FileExt(v_in.file) \notin AllowedSet)
             /\ v_out.status = 400 <=> v_out.result = "ValueError"
    /\ C10_Examples

\* C10, amended: validation fails exactly when the declared size exceeds
\* max_file_size, or the file name is not empty and its lower-cased extension
\* is not in the allow-list (an upload with an empty file name is checked for
\* its size only); the examples hold; the route answers a failure with 400
C10_FailsExactlyWhenNamed ==
    /\ v_out.done
          => /\ v_out.result = "ValueError"
                  <=> (DeclaredTooLarge
                       \/ (v_in.file.filename # <<>> /\ FileExt(v_in.file) \notin AllowedSet))
             /\ v_out.status = 400 <=> v_out.result = "ValueError"
    /\ C10_Examples

\* C10 happens: photo.jpg declared with 1001 bytes, refused, 400
C10_Witness ==
    /\ v_out.done
    /\ ExampleSettings
    /\ v_in.file = [filename |-> <<"p",".","j","p","g">>, size |-> 1001]
    /\ v_out.result = "ValueError"
    /\ v_out.status = 400

\* C11: a POST /generate_video without the prompt field ends before the route
\* function's body is entered, whatever the engine state and the upload: no
\* is-loaded answer (503), no upload answer (400), no engine call, no pipeline
\* call, and the request is not suspended (status 0); it is answered 422 by request
\* validation whenever its credentials are accepted (always, in the open
\* variant), and otherwise with the authentication error
C11_MissingPromptRejected ==
    (last.route = "generate_video" /\ last.step = "start" /\ ~last.prompt)
        => /\ ~last.handler_ran
           /\ last.engine_call = "none"
           /\ ~last.pipe_called
           /\ last.status \notin {0, 200, 400, 503}
           /\ settings.variant = "open" => last.status = 422
           /\ last.status \notin {401, 403, 500} => last.status = 422

\* C11 happens: the engine is loaded, the upload is one validation refuses,
\* the prompt is missing, and the answer is 422
C11_Witness ==
    /\ last.route = "generate_video"
    /\ ~last.prompt
    /\ ~Unloaded
    /\ validate_image_file(last.upload, settings) = "ValueError"
    /\ last.status = 422
    /\ ~last.handler_ran

OverArea == v_in.width * v_in.height > v_in.max_area

\* C12, as claimed: for an image of more than max_area pixels the preprocessor's
\* output width and height are both positive multiples of 8 and the output
\* area does not exceed max_area
C12_PositiveMultiplesOf8 ==
    (v_out.done /\ OverArea)
        => /\ v_out.width > 0 /\ v_out.height > 0
           /\ v_out.width % 8 = 0 /\ v_out.height % 8 = 0
           /\ v_out.width * v_out.height <= v_in.max_area

\* C12, amended: for an image of more than max_area pixels the preprocessor
\* resizes to a width and a height that are both multiples of 8, not above
\* width * scale and height * scale, and less than 9 below them, so that the
\* area does not exceed max_area; a side is 0, and the resize fails, exactly
\* when int(width * scale) or int(height * scale) is under 8
C12_MultiplesOf8WithinArea ==
    (v_out.done /\ OverArea)
        => /\ v_out.resized
           /\ v_out.width % 8 = 0 /\ v_out.height % 8 = 0
           /\ v_out.width >= 0 /\ v_out.height >= 0
           /\ v_out.width * v_out.height <= v_in.max_area
           /\ v_out.width * v_out.width * v_in.height <= v_in.width * v_in.max_area
           /\ v_out.height * v_out.height * v_in.width <= v_in.height * v_in.max_area
           /\ v_out.width + 9 > ExactScaled(v_in.width, v_in.height, v_in.max_area)
           /\ v_out.height + 9 > ExactScaled(v_in.height, v_in.width, v_in.max_area)
           /\ v_out.raised <=> (v_out.width = 0 \/ v_out.height = 0)
           /\ v_out.width = 0 => ExactScaled(v_in.width, v_in.height, v_in.max_area) <= 8
           /\ ExactScaled(v_in.width, v_in.height, v_in.max_area) < 8 => v_out.width = 0

\* C12 happens: 18 x 18 with max_area 256 is resized to 16 x 16, or to 8 x 8
\* when the scaled side comes out just below 16
C12_Witness ==
    /\ v_out.done
    /\ v_in = [width |-> 18, height |-> 18, max_area |-> 256]
    /\ v_out.width = 16 /\ v_out.height = 16
    /\ ~v_out.raised

\* C13: for an image of at most max_area pixels each side the preprocessor
\* returns (or asks of the resize) is the input side rounded down to a multiple
\* of 8: never larger, less than 8 smaller; an image whose sides are both
\* multiples of 8 keeps its size and is not resized
C13_RoundedDownTo8 ==
    (v_out.done /\ ~OverArea)
        => /\ v_out.width = Floor8(v_in.width) /\ v_out.height = Floor8(v_in.height)
           /\ v_out.width % 8 = 0 /\ v_out.height % 8 = 0
           /\ v_out.width <= v_in.width /\ v_in.width - v_out.width < 8
           /\ v_out.height <= v_in.height /\ v_in.height - v_out.height < 8
           /\ \A k \in 0..MaxDim :
                (k % 8 = 0 /\ k <= v_in.width) => k <= v_out.width
           /\ \A k \in 0..MaxDim :
                (k % 8 = 0 /\ k <= v_in.height) => k <= v_out.height
           /\ (v_in.width % 8 = 0 /\ v_in.height % 8 = 0)
                 => /\ ~v_out.resized /\ ~v_out.raised
                    /\ v_out.width = v_in.width /\ v_out.height = v_in.height
           /\ v_out.resized <=> (v_in.width % 8 # 0 \/ v_in.height % 8 # 0)
           /\ v_out.raised <=> (v_in.width < 8 \/ v_in.height < 8)

\* C13 happens: 15 x 9 within max_area 256 is resized to 8 x 8
C13_Witness ==
    /\ v_out.done
    /\ v_in.max_area = 256
    /\ v_in.width = 15 /\ v_in.height = 9
    /\ v_out.width = 8 /\ v_out.height = 8
    /\ v_out.resized /\ ~v_out.raised

\* the numeric fields the route of the request passes on to the engine
FieldsOf(route) ==
    IF route = "generate_video"
    THEN {"num_frames", "num_inference_steps", "guidance_scale", "max_area"}
    ELSE {"num_frames", "num_inference_steps", "guidance_scale"}

DefaultOf ==
    [num_frames |-> default_num_frames,
     num_inference_steps |-> default_num_inference_steps,
     guidance_scale |-> default_guidance_scale,
     max_area |-> default_max_area]

\* C14: for each numeric field the value handed to the engine is the
\* configured default when the client omits the field, and the client's value
\* whenever the client supplies one, the value 0 included
C14_ClientValueOrDefault ==
    v_out.done
        => \A k \in FieldsOf(v_in.route) :
              v_out.handed[k] = IF v_in.fields[k] = Omitted
                                THEN DefaultOf[k]
                                ELSE v_in.fields[k]

\* C15: no step of the service removes or replaces a file of output_dir; a
\* generation request answered 200 adds exactly one file, under a name no file
\* had before (generated_video_{hex}.mp4 for the image route,
\* generated_video_text_{hex}.mp4 for the text route), and startup, health,
\* info, reload and shutdown steps leave the directory as it is
C15_OutputDirOnlyGrows ==
    [][ /\ output_dir \subseteq output_dir'
        /\ (last'.route \in GenRoutes /\ last'.status = 200)
              => /\ last'.filename \notin output_dir
                 /\ output_dir' = output_dir \cup {last'.filename}
                 /\ last'.filename[1] = IF last'.route = "generate_video"
                                        THEN "generated_video_"
                                        ELSE "generated_video_text_"
        /\ last'.route \notin GenRoutes => output_dir' = output_dir
      ]_vars

\* C15 happens: two videos were generated, a reload ran after the first, and
\* both files are there after the shutdown
C15_Witness ==
    /\ phase = "stopped"
    /\ loads.reloaded
    /\ Cardinality(output_dir) >= 2
    /\ \A f \in output_dir : f[1] = "generated_video_"

\* the dependency check and the model-path check both ran and passed: every
\* package imports, the settings load, the model directory exists and holds
\* model_index.json and one of config.json, configuration.json
BothChecksPass ==
    /\ v_in.packages_ok
    /\ v_in.settings_ok
    /\ v_in.path_exists /\ v_in.model_index
    /\ v_in.config_json \/ v_in.configuration_json

LauncherDone == v_out.at = "exit"

\* C16: the launcher starts the server subprocess if and only if --skip-checks
\* is given or the dependency check and the model-path check both pass (no run
\* stops anywhere else: every run goes on until it exits); without
\* --skip-checks the checks run in the order dependencies, model path, GPU;
\* the first of the first two that fails ends the process with exit code 1,
\* with no later check run and no server started; whatever the GPU check
\* answers, the server is started after it
C16_LaunchIffChecksPass ==
    /\ v_out.launched => (v_in.skip_checks \/ BothChecksPass)
    /\ LauncherDone => (v_out.launched <=> (v_in.skip_checks \/ BothChecksPass))
    /\ ~LauncherDone => ENABLED NextLauncher
    /\ v_in.skip_checks => v_out.checks = <<>>
    /\ \E n \in 0..3 : v_out.checks = SubSeq(<<"dependencies", "model_path", "gpu">>, 1, n)
    /\ (LauncherDone /\ ~v_in.skip_checks /\ ~v_in.packages_ok)
          => /\ v_out.exit_code = 1
             /\ v_out.checks = <<"dependencies">>
             /\ ~v_out.launched
    /\ (LauncherDone /\ ~v_in.skip_checks /\ v_in.packages_ok /\ v_in.settings_ok
          /\ ~BothChecksPass)
          => /\ v_out.exit_code = 1
             /\ v_out.checks = <<"dependencies", "model_path">>
             /\ ~v_out.launched
    /\ (LauncherDone /\ Len(v_out.checks) = 3) => v_out.launched
    /\ (v_out.launched /\ ~v_in.skip_checks) => Len(v_out.checks) = 3
    /\ (LauncherDone /\ ~v_out.launched) => v_out.exit_code = 1

\* C16 happens: no --skip-checks, both checks pass, the GPU check answers
\* False, and the server was started and has ended
C16_Witness ==
    /\ LauncherDone
    /\ ~v_in.skip_checks
    /\ v_in.gpu # "available"
    /\ v_out.checks = <<"dependencies", "model_path", "gpu">>
    /\ v_out.launched
    /\ v_out.exit_code = 0

FilesListed == {i \in 1..Len(v_in.listing) : v_in.listing[i].is_file}

\* C17: list_output_files returns the empty sequence for a directory that
\* does not exist or is empty; otherwise it returns one record per regular
\* file and none for a subdirectory, each with the file's name, size and
\* times, ordered by creation time descending: of two adjacent records the
\* earlier one's "created" is >= the later one's
C17_ListedNewestFirst ==
    v_out.done
        => /\ (~v_in.exists \/ v_in.listing = <<>>) => v_out.files = <<>>
           /\ Len(v_out.files) = Cardinality(FilesListed)
           /\ \A i \in FilesListed :
                \E j \in 1..Len(v_out.files) :
                    v_out.files[j] = FileRecord(v_in.listing[i])
           /\ \A j \in 1..Len(v_out.files) :
                \E i \in FilesListed : v_out.files[j] = FileRecord(v_in.listing[i])
           /\ \A j \in 1..(Len(v_out.files) - 1) :
                v_out.files[j].created >= v_out.files[j + 1].created

\* C17 happens: an old file, a newer subdirectory and a file newer than the
\* first, listed in that order; the result is the newer file, then the old one
C17_Witness ==
    /\ v_out.done
    /\ Len(v_in.listing) = 3
    /\ v_in.listing[1].is_file /\ v_in.listing[1].created = 1
    /\ ~v_in.listing[2].is_file /\ v_in.listing[2].created = 3
    /\ v_in.listing[3].is_file /\ v_in.listing[3].created = 2
    /\ v_out.files = <<FileRecord(v_in.listing[3]), FileRecord(v_in.listing[1])>>

\* request r is inside the call of the engine's generate_video, and with it
\* inside self.pipe(...) (wan_model.py 159-168)
InPipeline(r) == pc[r].at = "generating"

\* request q has passed the is-loaded check and waits to go on
Suspended(q) == pc[q].at = "reading"

\* C18, as claimed: nothing keeps a second request out of the shared pipeline:
\* whenever one request is inside the pipeline call and another one is in
\* flight, the other one can step into the call too, so that both are inside
\* at the same time
C18_SecondCanEnterPipeline ==
    \A r, q \in Slots :
        (r # q /\ InPipeline(r) /\ Suspended(q))
            => ENABLED generate_video_call(q, "ok")

\* C18, amended: the engine has no lock around the pipeline, and two requests
\* can be in flight at once, but the service never has two requests inside the
\* pipeline call at the same time: the call runs in place on the event loop,
\* and a second request enters it only after the first has left it
C18_OneRequestInPipeline ==
    /\ Cardinality(Running) <= 1
    /\ \A r, q \in Slots :
          (r # q /\ InPipeline(r) /\ Suspended(q))
              => ~ENABLED generate_video_call(q, "ok")

\* C18 happens: two requests are in flight, one inside the pipeline call, the
\* other one suspended behind its is-loaded check
C18_Witness ==
    \E r, q \in Slots : r # q /\ InPipeline(r) /\ Suspended(q)

\* C19: a reload is not held back by a request in flight and does not end
\* it: a /model/reload whose load fails at the offload step leaves every
\* request in flight where it was, with a pipeline built by this load beside
\* the preprocessor of an earlier one; and a request inside the engine's
\* generate call always finds both handles present, whichever loads built them
C19_ReloadUnderRequestInFlight ==
    [][ /\ (last'.route = "model_reload" /\ last'.handler_ran
              /\ last'.env = "offload_error" /\ last'.step = "whole")
              => /\ pc' = pc
                 /\ image_processor' = image_processor
                 /\ pipe' # 0
                 /\ pipe' # image_processor'
        /\ (\E r \in Slots : pc'[r].at = "generating")
              => pipe' # 0 /\ image_processor' # 0
      ]_vars

\* C19 happens: a request passed its is-loaded check, a reload then failed at
\* the offload step, and the request is now inside the engine's generate call
\* with a pipeline and a preprocessor that come from different loads
C19_Witness ==
    /\ last.route = "generate_video" /\ last.step = "call"
    /\ last.follows_partial_load
    /\ \E r \in Slots : InPipeline(r)
    /\ pipe # 0 /\ image_processor # 0
    /\ pipe # image_processor

\* C20: from the entry of a request into the engine's generate call to the
\* return or the raise of that call, the service runs no step of any other
\* request: the only step taken is the end of that call, which answers the
\* request; every other request in flight stays where it is, no health, info,
\* reload or generation step runs, and the handles are not touched
C20_GenerationHoldsLoop ==
    [][ (\E r \in Slots : InPipeline(r))
          => /\ last'.route = "generate_video" /\ last'.step = "finish"
             /\ \E r \in Slots :
                   /\ InPipeline(r)
                   /\ pc' = [pc EXCEPT ![r] = Idle]
             /\ UNCHANGED <<settings, phase, pipe, image_processor, loads>>
      ]_vars

\* C20 happens: a generate call has ended with a video while another request
\* that was in flight throughout is still suspended where it was
C20_Witness ==
    /\ last.route = "generate_video" /\ last.step = "finish"
    /\ last.status = 200
    /\ \E q \in Slots : Suspended(q)

\* a load_model call has returned without raising, at startup or in a reload
LoadedOnce == loads.startup = "ok" \/ loads.reloaded

\* C21: no step of the service - a failed reload, a failed generation, a
\* failed export, the shutdown - clears a handle the engine holds; once
\* is_loaded() is true it is true after every later step; and once a load has
\* succeeded no generation request is answered 503
C21_LoadedIsMonotone ==
    [][ /\ pipe # 0 => pipe' # 0
        /\ image_processor # 0 => image_processor' # 0
        /\ is_loaded(pipe, image_processor) => is_loaded(pipe', image_processor')
        /\ LoadedOnce => /\ LoadedOnce'
                         /\ is_loaded(pipe', image_processor')
                         /\ ~(last'.route \in GenRoutes /\ last'.status = 503)
      ]_vars

\* C21 happens: a load succeeded at startup, a later reload failed at the
\* offload step, and the image request that arrives next passes the is-loaded
\* check
C21_Witness ==
    /\ loads.startup = "ok"
    /\ last.route = "generate_video" /\ last.step = "start"
    /\ last.follows_partial_load
    /\ last.handler_ran
    /\ last.status = 0
    /\ last.loaded

\* the answer e closes a generation request with 503, 400, a request-validation
\* failure, or an error raised by the engine before export_video is called
EndsBeforeExport(e) ==
    /\ e.route \in GenRoutes
    /\ \/ e.status \in {503, 400, 422}
       \/ /\ e.status = 500
          /\ e.detail \in {"not_loaded", "preprocess_error", "pipeline_error",
                           "AttributeError"}

\* C22: the step that answers a generation request with 503, 400, a
\* request-validation failure or an engine error raised before export creates
\* no file under output_dir and changes neither the engine's pipeline and
\* preprocessor handles nor the settings
C22_FailedRequestLeavesServiceUnchanged ==
    [][ EndsBeforeExport(last')
          => UNCHANGED <<output_dir, pipe, image_processor, settings, phase, loads>>
      ]_vars

\* C22 happens: the pipeline was called for an image request and raised, while
\* the output directory still has room for a file
C22_Witness ==
    /\ last.route = "generate_video" /\ last.step = "finish"
    /\ last.status = 500
    /\ last.detail = "pipeline_error"
    /\ last.pipe_called
    /\ Cardinality(output_dir) < MaxFiles

\* C23: when the preprocessor has returned an image with positive width and
\* height, that image has at most max_area pixels, and the preprocessor called
\* on it with the same max_area returns the same width and height without
\* resizing
C23_IdempotentOnDimensions ==
    (v_out.done /\ v_out.width > 0 /\ v_out.height > 0)
        => /\ ~v_out.raised
           /\ ~ExceedsArea(v_out.width, v_out.height, v_in.max_area)
           /\ v_out.again.done
                => /\ v_out.again.width = v_out.width
                   /\ v_out.again.height = v_out.height
                   /\ ~v_out.again.resized
                   /\ ~v_out.again.raised

\* C23 happens: an 18 x 18 image scaled down to 16 x 16 for max_area 256 has
\* been through the preprocessor a second time
C23_Witness ==
    /\ v_in = [width |-> 18, height |-> 18, max_area |-> 256]
    /\ v_out.done /\ v_out.resized
    /\ v_out.width = 16 /\ v_out.height = 16
    /\ v_out.again.done
    /\ v_out.again.width = 16 /\ v_out.again.height = 16

====
